---- MODULE Spec2Model ----
(***************************************************************************)
(* Model of the transcode worker of src/index.ts: processVideo and the     *)
(* module-level code that calls it.  One process runs one job; the record  *)
(* store (supabase), the object storage (S3), the codec processes and the  *)
(* file system are the environment, whose answers are chosen by \E.        *)
(*                                                                         *)
(* Strings are sequences of one-character strings.  The empty sequence     *)
(* stands for a value JavaScript treats as falsy (null, undefined, "").    *)
(***************************************************************************)
EXTENDS Integers, Sequences, FiniteSets, TLC

VARIABLES
    record,          \* the row of table "videos" with id = VIDEO_ID
    S3_PUBLIC_DOMAIN,\* process.env.S3_PUBLIC_DOMAIN is set
    run,             \* number of the current invocation on this job id
    pc,              \* where the invocation stands
    sourceKey,       \* const sourceKey (line 60)
    tempDir,         \* the staging directory of this invocation exists
    thumbFile,       \* thumbPath exists
    getObj,          \* how S3 GetObject answered
    download,        \* how the download ended
    thumbProc,       \* how the thumbnail process ended
    ffmpegProc,      \* how the transcode process ended
    videoUp,         \* the video putObject
    thumbUp,         \* the thumbnail putObject
    thumbPublicUrl,  \* let thumbPublicUrl (line 128)
    err,             \* the error caught at line 153
    surfaced,        \* the error the caller of processVideo (or node) saw
    exitCode,        \* the exit code of the process, NoExit while it runs
    writes,          \* the update() calls of this invocation, in order
    puts,            \* the keys of the putObject calls issued, in order
    raised,          \* the errors raised during this invocation, in order
    prevPuts,        \* the putObject keys of the invocation before this one
    rmRes            \* how rm(tempDir) ended

vars == <<record, S3_PUBLIC_DOMAIN, run, pc, sourceKey, tempDir, thumbFile,
          getObj, download, thumbProc, ffmpegProc, videoUp, thumbUp,
          thumbPublicUrl, err, surfaced, exitCode, writes, puts, raised,
          prevPuts, rmRes>>

(***************************************************************************)
(* Bounds                                                                  *)
(***************************************************************************)
\* Invocations on the same job id, one after the other.
MaxRuns == 2

\* The video_url values a record may hold.
SourceUrls ==
    { <<>>,                                  \* no video_url
      <<"h", "/">>,                          \* ends with "/": no source key
      <<"h", "/", "a", ".", "m">>,           \* h/a.m
      <<"h", "/", "r", "/", "a", ".", "m">>, \* h/r/a.m
      <<"r", "/", "a", ".", "m">>,           \* r/a.m, a key with a prefix
      <<"h", "/", "a">> }                    \* h/a, no extension

Statuses == {"queued", "processing", "completed", "failed"}
Terminal == {"completed", "failed"}

NoUrl == <<>>
NoExit == 0 - 1

(***************************************************************************)
(* Pure functions                                                          *)
(***************************************************************************)
\* Position of the last occurrence of character c in s, 0 when there is none.
RECURSIVE LastIndexOf(_, _, _)
LastIndexOf(s, c, i) ==
    IF i = 0 THEN 0
    ELSE IF s[i] = c THEN i
    ELSE LastIndexOf(s, c, i - 1)

\* sourceUrl.split("/").pop(): what follows the last "/".
SplitPop(url) ==
    SubSeq(url, LastIndexOf(url, "/", Len(url)) + 1, Len(url))

\* sourceKey.replace(/\.[^/.]+$/, ""): drops a last ".ext" with a non-empty
\* ext holding no "/" and no ".".
StripExtension(key) ==
    LET d == LastIndexOf(key, ".", Len(key))
        rest == SubSeq(key, d + 1, Len(key))
    IN  IF d > 0 /\ d < Len(key) /\ \A i \in 1..Len(rest) : rest[i] # "/"
        THEN SubSeq(key, 1, d - 1)
        ELSE key

H264Suffix == <<"_", "h", "2", "6", "4", ".", "m", "p", "4">>
ThumbSuffix == <<"_", "t", "h", "u", "m", "b", ".", "j", "p", "g">>

\* A derived key that puts a new extension in the place of the old one.
H264KeyReplacesExtension(key) == StripExtension(key) \o <<".", "m">>

H264Key(key) == StripExtension(key) \o H264Suffix
ThumbKey(key) == StripExtension(key) \o ThumbSuffix

\* getPublicUrl: "D" is the public domain, "E" the cleaned endpoint, "B" the
\* bucket name.
getPublicUrl(key) ==
    IF S3_PUBLIC_DOMAIN
    THEN <<"D", "/">> \o key
    ELSE <<"E", "/", "B", "/">> \o key

(***************************************************************************)
(* The record store                                                        *)
(***************************************************************************)
\* An update() call: the payload and whether the store accepted it.
Write(status, h264, thumb, ok) ==
    [transcode_status |-> status, video_url_h264 |-> h264,
     thumbnail_url |-> thumb, accepted |-> ok]

\* An update that stores the transcoded video's URL as the video_url too.
UpdatedOverwritesSource(row, w) ==
    IF ~w.accepted THEN row
    ELSE [row EXCEPT
            !.transcode_status = w.transcode_status,
            !.video_url =
                IF w.video_url_h264 # NoUrl THEN w.video_url_h264 ELSE @,
            !.video_url_h264 =
                IF w.video_url_h264 # NoUrl THEN w.video_url_h264 ELSE @,
            !.thumbnail_url =
                IF w.thumbnail_url # NoUrl THEN w.thumbnail_url ELSE @]

\* The row after an update() call: a field absent from the payload is kept.
Updated(row, w) ==
    IF ~w.accepted THEN row
    ELSE [row EXCEPT
            !.transcode_status = w.transcode_status,
            !.video_url_h264 =
                IF w.video_url_h264 # NoUrl THEN w.video_url_h264 ELSE @,
            !.thumbnail_url =
                IF w.thumbnail_url # NoUrl THEN w.thumbnail_url ELSE @]

Rows ==
    { [exists |-> FALSE, video_url |-> NoUrl, transcode_status |-> "queued",
       video_url_h264 |-> NoUrl, thumbnail_url |-> NoUrl] }
    \cup
    { [exists |-> TRUE, video_url |-> u, transcode_status |-> s,
       video_url_h264 |-> NoUrl, thumbnail_url |-> NoUrl] :
         u \in SourceUrls, s \in Statuses }

(***************************************************************************)
(* Init: a fresh process, before line 162                                  *)
(***************************************************************************)
Fresh ==
    /\ pc = "main"
    /\ sourceKey = <<>>
    /\ tempDir = FALSE
    /\ thumbFile = FALSE
    /\ getObj = "none"
    /\ download = "none"
    /\ thumbProc = "none"
    /\ ffmpegProc = "none"
    /\ videoUp = "none"
    /\ thumbUp = "none"
    /\ thumbPublicUrl = NoUrl
    /\ err = "none"
    /\ surfaced = "none"
    /\ exitCode = NoExit
    /\ writes = <<>>
    /\ puts = <<>>
    /\ raised = <<>>
    /\ rmRes = "none"

Init ==
    /\ record \in Rows
    /\ S3_PUBLIC_DOMAIN \in BOOLEAN
    /\ run = 1
    /\ prevPuts = <<>>
    /\ Fresh

(***************************************************************************)
(* Steps of one invocation                                                 *)
(***************************************************************************)
\* The variables a step does not name are left alone.
Untouched(touched) ==
    /\ IF "record" \in touched THEN TRUE ELSE UNCHANGED record
    /\ IF "sourceKey" \in touched THEN TRUE ELSE UNCHANGED sourceKey
    /\ IF "tempDir" \in touched THEN TRUE ELSE UNCHANGED tempDir
    /\ IF "thumbFile" \in touched THEN TRUE ELSE UNCHANGED thumbFile
    /\ IF "getObj" \in touched THEN TRUE ELSE UNCHANGED getObj
    /\ IF "download" \in touched THEN TRUE ELSE UNCHANGED download
    /\ IF "thumbProc" \in touched THEN TRUE ELSE UNCHANGED thumbProc
    /\ IF "ffmpegProc" \in touched THEN TRUE ELSE UNCHANGED ffmpegProc
    /\ IF "videoUp" \in touched THEN TRUE ELSE UNCHANGED videoUp
    /\ IF "thumbUp" \in touched THEN TRUE ELSE UNCHANGED thumbUp
    /\ IF "thumbPublicUrl" \in touched THEN TRUE ELSE UNCHANGED thumbPublicUrl
    /\ IF "err" \in touched THEN TRUE ELSE UNCHANGED err
    /\ IF "surfaced" \in touched THEN TRUE ELSE UNCHANGED surfaced
    /\ IF "exitCode" \in touched THEN TRUE ELSE UNCHANGED exitCode
    /\ IF "writes" \in touched THEN TRUE ELSE UNCHANGED writes
    /\ IF "puts" \in touched THEN TRUE ELSE UNCHANGED puts
    /\ IF "raised" \in touched THEN TRUE ELSE UNCHANGED raised
    /\ IF "rmRes" \in touched THEN TRUE ELSE UNCHANGED rmRes
    /\ UNCHANGED <<S3_PUBLIC_DOMAIN, run, prevPuts>>

\* process.exit(code) after the caller saw error e ("none": no error).
Exit(code, e) ==
    /\ pc' = "exited"
    /\ exitCode' = code
    /\ surfaced' = e

\* A throw, or a rejected await, inside the try block: control goes to the
\* catch clause of line 153, which binds the error.
Throw(e) ==
    /\ raised' = Append(raised, e)
    /\ pc' = "catch"
    /\ err' = e

\* supabase.from("videos").update(payload).eq("id", videoId): the call
\* resolves with {error} and never rejects.
Update(w) ==
    /\ writes' = Append(writes, w)
    /\ record' = Updated(record, w)

\* Lines 162-168: no VIDEO_ID, exit 1; otherwise processVideo is called.
Main ==
    /\ pc = "main"
    /\ \E supplied \in BOOLEAN :
         IF ~supplied
         THEN Exit(1, "none") /\ Untouched({"surfaced", "exitCode"})
         ELSE pc' = "load" /\ Untouched({})

\* A LoadJob inside the try block: what it throws reaches the catch clause.
LoadJobInsideTry ==
    /\ pc = "load"
    /\ \E error \in BOOLEAN :
         LET thrown ==
               IF error \/ ~record.exists THEN "not_found"
               ELSE IF record.video_url = NoUrl THEN "no_video_url"
               ELSE IF SplitPop(record.video_url) = <<>> THEN "no_source_key"
               ELSE "none"
         IN  IF thrown # "none"
             THEN Throw(thrown) /\ Untouched({"err", "raised"})
             ELSE /\ sourceKey' = SplitPop(record.video_url)
                  /\ pc' = "mark"
                  /\ Untouched({"sourceKey"})

\* Lines 50-68: the record is loaded and checked, before the try block: a
\* throw here rejects processVideo, and line 170 exits with 1.
LoadJob ==
    /\ pc = "load"
    /\ \E error \in BOOLEAN :
         LET thrown ==
               IF error \/ ~record.exists THEN "not_found"
               ELSE IF record.video_url = NoUrl THEN "no_video_url"
               ELSE IF SplitPop(record.video_url) = <<>> THEN "no_source_key"
               ELSE "none"
         IN  IF thrown # "none"
             THEN /\ raised' = Append(raised, thrown)
                  /\ Exit(1, thrown)
                  /\ Untouched({"surfaced", "exitCode", "raised"})
             ELSE /\ sourceKey' = SplitPop(record.video_url)
                  /\ pc' = "mark"
                  /\ Untouched({"sourceKey"})

\* Line 72: the record is marked processing; the result is not looked at.
MarkProcessing ==
    /\ pc = "mark"
    /\ \E ok \in BOOLEAN : Update(Write("processing", NoUrl, NoUrl, ok))
    /\ pc' = "mkdir"
    /\ Untouched({"record", "writes"})

\* Line 73: mkdir(tempDir).
Mkdir ==
    /\ pc = "mkdir"
    /\ \E ok \in BOOLEAN :
         IF ok
         THEN tempDir' = TRUE /\ pc' = "get" /\ Untouched({"tempDir"})
         ELSE Throw("mkdir") /\ Untouched({"err", "raised"})

\* A GetObject whose body is not looked at.
GetObjectNoBodyCheck(r) ==
    IF r = "rejected" THEN "get_object" ELSE "none"

\* Lines 76-77: what is thrown after GetObject rejected ("rejected": no such
\* key) or answered with or without a body.
GetObjectThrows(r) ==
    IF r = "rejected" THEN "get_object"
    ELSE IF r = "no_body" THEN "empty_body"
    ELSE "none"

\* Lines 75-77: the source object is requested.
GetObject ==
    /\ pc = "get"
    /\ \E r \in {"body", "no_body", "rejected"} :
         /\ getObj' = r
         /\ IF GetObjectThrows(r) = "none"
            THEN pc' = "download" /\ Untouched({"getObj"})
            ELSE Throw(GetObjectThrows(r))
                 /\ Untouched({"getObj", "err", "raised"})

\* A download whose promise resolves on the write stream's "error" too.
DownloadResolvesOnError ==
    /\ pc = "download"
    /\ \E r \in {"finish", "ws_error"} :
         /\ download' = r
         /\ pc' = "thumb"
         /\ Untouched({"download"})

\* Lines 79-82: the body is piped to inputPath; "finish" and "error" of the
\* write stream settle the promise.
Download ==
    /\ pc = "download"
    /\ \E r \in {"finish", "ws_error"} :
         /\ download' = r
         /\ IF r = "finish" THEN pc' = "thumb" /\ Untouched({"download"})
            ELSE Throw("write_stream")
                 /\ Untouched({"download", "err", "raised"})

\* Lines 79-82: an error of the read stream.  pipe() returns the write
\* stream, so the read stream has no "error" listener and nothing settles
\* the promise.  What the runtime does then depends on the stream: it throws
\* the unhandled "error" event (node exits with 1), or it closes the stream
\* silently and the process ends with 0 once the event loop is empty, or
\* something keeps the loop alive and the process hangs.  In no case does
\* the catch or the finally clause run.
ReadStreamError ==
    /\ pc = "download"
    /\ download' = "rs_error"
    /\ raised' = Append(raised, "read_stream")
    /\ \E outcome \in {"uncaught", "drained", "hung"} :
         IF outcome = "uncaught"
         THEN Exit(1, "read_stream")
              /\ Untouched({"download", "raised", "surfaced", "exitCode"})
         ELSE IF outcome = "drained"
         THEN Exit(0, "none")
              /\ Untouched({"download", "raised", "surfaced", "exitCode"})
         ELSE pc' = "hung" /\ Untouched({"download", "raised"})

\* A thumbnail process whose exit code is checked as the transcode's is.
ThumbSettlesByCode(end) == IF end = "close0" THEN "resolve" ELSE "reject"

\* Lines 93-94: "close" and "error" of the thumbnail process both resolve.
ThumbSettles(end) == "resolve"

\* Lines 88-95: the thumbnail process; whether it left thumbPath behind is
\* not decided by how it ended, except that a process that did not start
\* wrote nothing.
ThumbProcess ==
    /\ pc = "thumb"
    /\ \E end \in {"close0", "close1", "error"}, wrote \in BOOLEAN :
         /\ end = "error" => ~wrote
         /\ thumbProc' = end
         /\ thumbFile' = wrote
         /\ IF ThumbSettles(end) = "resolve"
            THEN pc' = "ffmpeg" /\ Untouched({"thumbProc", "thumbFile"})
            ELSE Throw("thumb_failed")
                 /\ Untouched({"thumbProc", "thumbFile", "err", "raised"})

\* A transcode process whose exit code is not looked at.
FfmpegSettlesAnyCode(end) == IF end = "error" THEN "reject" ELSE "resolve"

\* Lines 107-111: "close" resolves on code 0 and rejects otherwise; "error"
\* rejects.
FfmpegSettles(end) == IF end = "close0" THEN "resolve" ELSE "reject"

\* Lines 97-112: the transcode process.
Ffmpeg ==
    /\ pc = "ffmpeg"
    /\ \E end \in {"close0", "close1", "error"} :
         /\ ffmpegProc' = end
         /\ IF FfmpegSettles(end) = "resolve"
            THEN pc' = "publish" /\ Untouched({"ffmpegProc"})
            ELSE Throw(IF end = "error" THEN "ffmpeg_spawn"
                       ELSE "ffmpeg_exit_1")
                 /\ Untouched({"ffmpegProc", "err", "raised"})

\* Lines 116-138: both putObject calls are issued, the thumbnail's only if
\* thumbPath exists; Promise.all awaits them.
StartUploads ==
    /\ pc = "publish"
    /\ videoUp' = "inflight"
    /\ thumbUp' = IF thumbFile THEN "inflight" ELSE "none"
    /\ puts' = puts \o <<H264Key(sourceKey)>>
                    \o (IF thumbFile THEN <<ThumbKey(sourceKey)>> ELSE <<>>)
    /\ pc' = "uploads"
    /\ Untouched({"videoUp", "thumbUp", "puts"})

\* Line 138: Promise.all rejects with the first rejection among its
\* promises, and resolves once all of them have resolved.
PromiseAll(mine, other) ==
    IF mine = "failed" THEN "reject"
    ELSE IF other \in {"none", "ok"} THEN "resolve"
    ELSE "pending"

\* What the code awaiting at line 138 does when one upload settles; it does
\* nothing when it waits there no longer.
Awaited(e, mine, other) ==
    IF pc = "uploads" /\ PromiseAll(mine, other) = "reject"
    THEN Throw(e)
    ELSE /\ raised' = IF mine = "failed" THEN Append(raised, e) ELSE raised
         /\ pc' = IF pc = "uploads" /\ PromiseAll(mine, other) = "resolve"
                  THEN "final" ELSE pc
         /\ err' = err

\* Lines 122-125: the video putObject settles.
VideoUploadSettles ==
    /\ videoUp = "inflight"
    /\ pc \in {"uploads", "catch", "finally"}
    /\ \E ok \in BOOLEAN :
         /\ videoUp' = IF ok THEN "ok" ELSE "failed"
         /\ Awaited("upload_video", videoUp', thumbUp)
    /\ Untouched({"videoUp", "err", "raised"})

\* Lines 131-134: the thumbnail putObject settles; then() sets
\* thumbPublicUrl when it resolved.
ThumbUploadSettles ==
    /\ thumbUp = "inflight"
    /\ pc \in {"uploads", "catch", "finally"}
    /\ \E ok \in BOOLEAN :
         /\ thumbUp' = IF ok THEN "ok" ELSE "failed"
         /\ thumbPublicUrl' =
              IF ok THEN getPublicUrl(ThumbKey(sourceKey)) ELSE thumbPublicUrl
         /\ Awaited("upload_thumb", thumbUp', videoUp)
    /\ Untouched({"thumbUp", "thumbPublicUrl", "err", "raised"})

\* A payload that always names a thumbnail.
UpdatePayloadAlwaysThumb(ok) ==
    Write("completed", getPublicUrl(H264Key(sourceKey)),
          getPublicUrl(ThumbKey(sourceKey)), ok)

\* Lines 141-146: the payload of the final update.
UpdatePayload(ok) ==
    Write("completed", getPublicUrl(H264Key(sourceKey)), thumbPublicUrl, ok)

\* A final update whose error is not looked at, as at line 72.
FinalWriteIgnoresError ==
    /\ pc = "final"
    /\ \E ok \in BOOLEAN : Update(UpdatePayload(ok))
    /\ pc' = "finally"
    /\ Untouched({"record", "writes"})

\* Lines 148-151: the final update; its error is thrown.
FinalWrite ==
    /\ pc = "final"
    /\ \E ok \in BOOLEAN :
         /\ Update(UpdatePayload(ok))
         /\ IF ok THEN pc' = "finally" /\ Untouched({"record", "writes"})
            ELSE Throw("db_error")
                 /\ Untouched({"record", "writes", "err", "raised"})

\* A catch clause that throws the error of its own update, as line 149 does.
RethrownOrDbError(e, ok) == IF ok THEN e ELSE "db_error"

\* Line 156: the catch clause throws the error it caught, whatever the
\* update of line 155 answered.
Rethrown(e, ok) == e

\* Lines 153-156: the catch clause writes failed, not looking at the result,
\* and throws.
CatchWrite ==
    /\ pc = "catch"
    /\ \E ok \in BOOLEAN :
         /\ Update(Write("failed", NoUrl, NoUrl, ok))
         /\ err' = Rethrown(err, ok)
    /\ pc' = "finally"
    /\ Untouched({"record", "writes", "err"})

\* A finally clause without the catch of line 158: a failing rm rejects
\* processVideo with its own error.
FinallyRmThrows ==
    /\ pc = "finally"
    /\ \E removed \in BOOLEAN :
         /\ rmRes' = IF removed THEN "ok" ELSE "failed"
         /\ tempDir' = (tempDir /\ ~removed)
         /\ IF removed THEN Exit(IF err = "none" THEN 0 ELSE 1, err)
            ELSE Exit(1, "rm_error")
    /\ Untouched({"rmRes", "tempDir", "surfaced", "exitCode"})

\* Lines 157-159 and 168-173: rm(tempDir), its error swallowed; then
\* processVideo settles and the process exits, with 0 if it resolved and
\* with 1 if it rejected.
Finally ==
    /\ pc = "finally"
    /\ \E removed \in BOOLEAN :
         /\ rmRes' = IF removed THEN "ok" ELSE "failed"
         /\ tempDir' = (tempDir /\ ~removed)
    /\ Exit(IF err = "none" THEN 0 ELSE 1, err)
    /\ Untouched({"rmRes", "tempDir", "surfaced", "exitCode"})

\* The job id is dispatched again: a new process, a new staging directory.
Restart ==
    /\ pc = "exited"
    /\ run < MaxRuns
    /\ run' = run + 1
    /\ pc' = "main"
    /\ sourceKey' = <<>>
    /\ tempDir' = FALSE
    /\ thumbFile' = FALSE
    /\ getObj' = "none"
    /\ download' = "none"
    /\ thumbProc' = "none"
    /\ ffmpegProc' = "none"
    /\ videoUp' = "none"
    /\ thumbUp' = "none"
    /\ thumbPublicUrl' = NoUrl
    /\ err' = "none"
    /\ surfaced' = "none"
    /\ exitCode' = NoExit
    /\ writes' = <<>>
    /\ puts' = <<>>
    /\ raised' = <<>>
    /\ rmRes' = "none"
    /\ prevPuts' = puts
    /\ UNCHANGED <<record, S3_PUBLIC_DOMAIN>>

Next ==
    \/ Main
    \/ LoadJob
    \/ MarkProcessing
    \/ Mkdir
    \/ GetObject
    \/ Download
    \/ ReadStreamError
    \/ ThumbProcess
    \/ Ffmpeg
    \/ StartUploads
    \/ VideoUploadSettles
    \/ ThumbUploadSettles
    \/ FinalWrite
    \/ CatchWrite
    \/ Finally
    \/ Restart

Spec == Init /\ [][Next]_vars

TypeOK ==
    /\ record \in [exists : BOOLEAN, video_url : Seq(STRING),
                   transcode_status : Statuses, video_url_h264 : Seq(STRING),
                   thumbnail_url : Seq(STRING)]
    /\ run \in 1..MaxRuns
    /\ exitCode \in {NoExit, 0, 1}

(***************************************************************************)
(* What the properties below speak of                                      *)
(***************************************************************************)
Exited == pc = "exited"

\* The update() calls of this invocation that carry status st.
Attempts(st) ==
    Cardinality({i \in DOMAIN writes : writes[i].transcode_status = st})

AcceptedWrite(st) ==
    \E i \in DOMAIN writes :
        writes[i].transcode_status = st /\ writes[i].accepted

AllAccepted == \A i \in DOMAIN writes : writes[i].accepted

LastWrite == writes[Len(writes)]

FfmpegFailed == ffmpegProc \in {"close1", "error"}
ThumbFailed == thumbProc \in {"close1", "error"}
SourceMissing == getObj \in {"no_body", "rejected"}

\* The putObject calls issued for key k.
Puts(k) == Cardinality({i \in DOMAIN puts : puts[i] = k})

(***************************************************************************)
(* C1                                                                      *)
(***************************************************************************)
\* C1 as stated: when the transcode process closes with a code other than 0
\* or fails to start, the final persisted status is failed and completed is
\* never written by that invocation.
C1_TranscodeFailureYieldsFailed ==
    (Exited /\ FfmpegFailed) =>
        /\ record.transcode_status = "failed"
        /\ Attempts("completed") = 0

\* C1 amended: when the transcode process closes with a code other than 0 or
\* fails to start, the invocation never writes completed, its one failed
\* write is the last write it issues, and the final persisted status is
\* failed whenever the record store accepts that write.
C1_TranscodeFailureWritesFailed ==
    /\ FfmpegFailed => Attempts("completed") = 0
    /\ (Exited /\ FfmpegFailed) =>
         /\ Attempts("failed") = 1
         /\ LastWrite.transcode_status = "failed"
         /\ LastWrite.accepted => record.transcode_status = "failed"

C1_Witness ==
    /\ Exited
    /\ ffmpegProc = "close1"
    /\ LastWrite.accepted
    /\ record.transcode_status = "failed"

(***************************************************************************)
(* C2                                                                      *)
(***************************************************************************)
\* C2: when the thumbnail file exists, the thumbnail putObject fails and the
\* video putObject succeeds (the record store accepting every write), the
\* job ends completed with exit code 0 and no thumbnail URL is recorded.
C2_ThumbUploadFailureNonFatal ==
    (Exited /\ thumbFile /\ thumbUp = "failed" /\ videoUp = "ok"
       /\ AllAccepted) =>
        /\ record.transcode_status = "completed"
        /\ exitCode = 0
        /\ \A i \in DOMAIN writes : writes[i].thumbnail_url = NoUrl

(***************************************************************************)
(* C3                                                                      *)
(***************************************************************************)
\* C3: when the process has exited, whatever the outcome, the staging
\* directory this invocation created no longer exists.
C3_StagingDirRemoved == Exited => ~tempDir

(***************************************************************************)
(* C4                                                                      *)
(***************************************************************************)
\* C4: once the persisted status is completed or failed, no write changes it
\* to another status, whatever the initial status and however many
\* invocations run on the job id.
C4_StatusOnlyForward ==
    [][record.transcode_status \in Terminal =>
         record'.transcode_status = record.transcode_status]_vars

(***************************************************************************)
(* C5                                                                      *)
(***************************************************************************)
\* C5 as stated: when the source object is missing (GetObject fails or
\* answers without a body), the job ends with status failed and the process
\* exits with a code other than 0.
C5_MissingSourceYieldsFailed ==
    (Exited /\ SourceMissing) =>
        /\ record.transcode_status = "failed"
        /\ exitCode # 0

\* C5 amended: when the source object is missing, the process exits with a
\* code other than 0, the invocation's one failed write is the last write it
\* issues, and the job ends with status failed whenever the record store
\* accepts that write.
C5_MissingSourceWritesFailed ==
    (Exited /\ SourceMissing) =>
        /\ exitCode = 1
        /\ Attempts("failed") = 1
        /\ LastWrite.transcode_status = "failed"
        /\ LastWrite.accepted => record.transcode_status = "failed"

C5_Witness ==
    /\ Exited
    /\ getObj = "no_body"
    /\ LastWrite.accepted
    /\ record.transcode_status = "failed"
    /\ exitCode = 1

(***************************************************************************)
(* C6                                                                      *)
(***************************************************************************)
\* C6: when the job id is not in the record store, the invocation issues no
\* status write, never creates a staging directory, and exits with a code
\* other than 0.
C6_NotFoundFailsFast ==
    (~record.exists \/ surfaced = "not_found") =>
        /\ writes = <<>>
        /\ ~tempDir
        /\ pc \in {"main", "load", "exited"}
        /\ Exited => exitCode = 1

C6_Witness ==
    /\ Exited
    /\ ~record.exists
    /\ surfaced = "not_found"
    /\ exitCode = 1

(***************************************************************************)
(* C7                                                                      *)
(***************************************************************************)
\* Nothing but the thumbnail process failed in this invocation.
NothingElseFailed ==
    /\ \A i \in DOMAIN raised : raised[i] = "thumb_failed"
    /\ download # "rs_error"
    /\ AllAccepted

\* C7: when the thumbnail process exits with a code other than 0 or fails to
\* start, and the transcode and every other step succeed, the job ends
\* completed and failed is never written.
C7_ThumbFailureNotFatal ==
    (Exited /\ ThumbFailed /\ NothingElseFailed) =>
        /\ record.transcode_status = "completed"
        /\ Attempts("failed") = 0
        /\ exitCode = 0

C7_Witness ==
    /\ Exited
    /\ thumbProc = "error"
    /\ NothingElseFailed
    /\ record.transcode_status = "completed"

(***************************************************************************)
(* C8                                                                      *)
(***************************************************************************)
\* What C8 says of a completed write, but for the thumbnail URL.
CompletedCarriesVideo(w) ==
    /\ w.video_url_h264 = getPublicUrl(H264Key(sourceKey))
    /\ w.video_url_h264 # NoUrl
    /\ Puts(H264Key(sourceKey)) = 1
    /\ videoUp = "ok"
    /\ Puts(ThumbKey(sourceKey)) <= 1
    /\ Len(puts) = Puts(H264Key(sourceKey)) + Puts(ThumbKey(sourceKey))

\* C8 as stated: a completed write carries the video URL, after exactly one
\* video upload and at most one thumbnail upload; it carries a thumbnail URL
\* only if the thumbnail process succeeded and the thumbnail upload
\* succeeded.
C8_CompletedCarriesResults ==
    \A i \in DOMAIN writes :
        writes[i].transcode_status = "completed" =>
            /\ CompletedCarriesVideo(writes[i])
            /\ writes[i].thumbnail_url # NoUrl =>
                 (thumbProc = "close0" /\ thumbUp = "ok")

\* C8 amended: a completed write carries the video URL, after exactly one
\* video upload and at most one thumbnail upload; it carries a thumbnail URL
\* only if the thumbnail file existed after the thumbnail process, however
\* that process ended, and the thumbnail upload succeeded.
C8_CompletedCarriesUploaded ==
    \A i \in DOMAIN writes :
        writes[i].transcode_status = "completed" =>
            /\ CompletedCarriesVideo(writes[i])
            /\ writes[i].thumbnail_url # NoUrl =>
                 (thumbFile /\ thumbUp = "ok")

C8_Witness ==
    /\ Exited
    /\ AcceptedWrite("completed")
    /\ record.thumbnail_url = getPublicUrl(ThumbKey(sourceKey))
    /\ thumbProc = "close1"
    /\ Len(puts) = 2

(***************************************************************************)
(* C9                                                                      *)
(***************************************************************************)
\* C9: the exit code is 0 if the completed write was accepted by the record
\* store and 1 in every other run.
C9_ExitZeroIffCompleted ==
    Exited =>
        /\ exitCode \in {0, 1}
        /\ exitCode = 0 <=> AcceptedWrite("completed")

CompletedRejected ==
    \E i \in DOMAIN writes :
        writes[i].transcode_status = "completed" /\ ~writes[i].accepted

\* C11 as stated: when fetch, transcode and publish succeed and the
\* completed write fails, the error is surfaced to the caller, no further
\* status write changes the record, and the job remains in processing.
C11_CompletedRejectedStaysProcessing ==
    (Exited /\ CompletedRejected /\ writes[1].accepted) =>
        /\ surfaced = "db_error"
        /\ record.transcode_status = "processing"

\* C11 amended: when fetch, transcode and publish succeed and the completed
\* write fails, its error is surfaced to the caller (exit code 1) and the
\* catch clause issues one failed write: the job ends failed when the record
\* store accepts that write, and stays as it was (processing, if that write
\* had been accepted) only when the failed write is rejected too.
C11_CompletedRejectedWritesFailed ==
    (Exited /\ CompletedRejected) =>
        /\ surfaced = "db_error"
        /\ exitCode = 1
        /\ Len(writes) = 3
        /\ LastWrite.transcode_status = "failed"
        /\ LastWrite.accepted => record.transcode_status = "failed"
        /\ (~LastWrite.accepted /\ writes[1].accepted) =>
             record.transcode_status = "processing"

C11_Witness ==
    /\ Exited
    /\ CompletedRejected
    /\ writes[1].accepted
    /\ LastWrite.accepted
    /\ record.transcode_status = "failed"
    /\ surfaced = "db_error"

(***************************************************************************)
(* C12                                                                     *)
(***************************************************************************)
\* String s ends with string t.
EndsWith(s, t) ==
    /\ Len(t) <= Len(s)
    /\ SubSeq(s, Len(s) - Len(t) + 1, Len(s)) = t

\* The source reference of the scenario, raw/abc123.mov, written r/a.m.
ScenarioRef == <<"r", "/", "a", ".", "m">>
ScenarioBase == <<"r", "/", "a">>

\* Every step of this invocation succeeded, the thumbnail's too.
AllSucceeded ==
    /\ Exited
    /\ raised = <<>>
    /\ ffmpegProc = "close0"
    /\ thumbProc = "close0"
    /\ thumbFile
    /\ videoUp = "ok"
    /\ thumbUp = "ok"
    /\ AllAccepted

\* C12: the derived keys are the source reference without its extension,
\* with _h264.mp4 and _thumb.jpg appended and the rest of the key kept: for
\* source reference r/a.m, with encode and thumbnail succeeding, the final
\* record is completed, its video URL ends in r/a_h264.mp4 and its thumbnail
\* URL in r/a_thumb.jpg.
C12_DerivedKeysKeepSourceKey ==
    (AllSucceeded /\ record.video_url = ScenarioRef) =>
        /\ record.transcode_status = "completed"
        /\ puts = <<ScenarioBase \o H264Suffix, ScenarioBase \o ThumbSuffix>>
        /\ EndsWith(record.video_url_h264, ScenarioBase \o H264Suffix)
        /\ EndsWith(record.thumbnail_url, ScenarioBase \o ThumbSuffix)

(***************************************************************************)
(* C13                                                                     *)
(***************************************************************************)
\* C13: a second invocation on the same job id uploads to the same derived
\* keys as the first, whatever the outcome of the first: no invocation
\* changes the source reference its keys are derived from.
C13_SameKeysEveryRun ==
    /\ sourceKey # <<>> => sourceKey = SplitPop(record.video_url)
    /\ \A i \in DOMAIN puts :
         /\ puts[i] \in {H264Key(SplitPop(record.video_url)),
                         ThumbKey(SplitPop(record.video_url))}
         /\ i \in DOMAIN prevPuts => puts[i] = prevPuts[i]

C13_Witness ==
    /\ run = 2
    /\ Len(prevPuts) = 2
    /\ puts = prevPuts
    /\ record.transcode_status = "completed"
    /\ Exited

(***************************************************************************)
(* C14                                                                     *)
(***************************************************************************)
\* C14: any stream error during the download, of the read stream or of the
\* write stream, fails the fetch step: no codec process is started, failed
\* is written, and the caller sees the error.
C14_StreamErrorFailsFetch ==
    (Exited /\ download \in {"ws_error", "rs_error"}) =>
        /\ thumbProc = "none"
        /\ ffmpegProc = "none"
        /\ Attempts("failed") = 1
        /\ surfaced \in {"write_stream", "read_stream"}
        /\ exitCode = 1

(***************************************************************************)
(* C15                                                                     *)
(***************************************************************************)
CodecSpawned ==
    \/ thumbProc # "none"
    \/ ffmpegProc # "none"
    \/ pc \in {"thumb", "ffmpeg"}

\* C15: no codec process is spawned before the download's write stream has
\* finished, no putObject is issued before the transcode has closed with
\* exit code 0, and a run whose transcode fails attempts no upload.
C15_StagesOrdered ==
    /\ CodecSpawned => download = "finish"
    /\ (puts # <<>> \/ videoUp # "none" \/ thumbUp # "none") =>
           /\ ffmpegProc = "close0"
           /\ download = "finish"
    /\ FfmpegFailed => (puts = <<>> /\ videoUp = "none" /\ thumbUp = "none")

C15_Witness ==
    /\ pc = "uploads"
    /\ Len(puts) = 2
    /\ videoUp = "inflight"
    /\ thumbUp = "inflight"
    /\ download = "finish"
    /\ ffmpegProc = "close0"

(***************************************************************************)
(* C16                                                                     *)
(***************************************************************************)
\* C16: whenever this invocation's staging directory exists, the processing
\* write was persisted before the directory was made.
C16_StagingOnlyWhenProcessing ==
    tempDir => (Len(writes) >= 1 /\ writes[1].transcode_status = "processing"
                /\ writes[1].accepted)

(***************************************************************************)
(* C17                                                                     *)
(***************************************************************************)
\* C17: a failing removal of the staging directory changes nothing of the
\* outcome: whether rm succeeds or fails, the finally clause leaves the
\* persisted status as it is, the caller sees the error the try or catch
\* block ended with, and the exit code is 0 exactly when there is none.
C17_RemovalNeverChangesOutcome ==
    [][(pc = "finally" /\ pc' = "exited") =>
          /\ rmRes' \in {"ok", "failed"}
          /\ record' = record
          /\ writes' = writes
          /\ surfaced' = err
          /\ exitCode' = (IF err = "none" THEN 0 ELSE 1)]_vars

C17_Witness ==
    /\ Exited
    /\ rmRes = "failed"
    /\ tempDir
    /\ exitCode = 0
    /\ surfaced = "none"
    /\ record.transcode_status = "completed"

(***************************************************************************)
(* C18                                                                     *)
(***************************************************************************)
UploadInFlight == videoUp = "inflight" \/ thumbUp = "inflight"

\* C18: while one of the two uploads is still in flight, the staging
\* directory is not removed and no terminal status is written, also when
\* the other upload has already failed.
C18_NoCleanupWhileUploading ==
    [][(UploadInFlight /\ pc # "exited") =>
          /\ rmRes' = rmRes
          /\ Len(writes') > Len(writes) =>
                writes'[Len(writes')].transcode_status \notin Terminal]_vars

(***************************************************************************)
(* C19                                                                     *)
(***************************************************************************)
\* C19: with every record-store write succeeding, an invocation that marked
\* the job processing has written completed or failed by the time the
\* process exits, whatever failed in fetch, transcode or upload.
C19_NeverLeftProcessing ==
    (Exited /\ AllAccepted /\ AcceptedWrite("processing")) =>
        /\ AcceptedWrite("completed") \/ AcceptedWrite("failed")
        /\ record.transcode_status \in Terminal

(***************************************************************************)
(* C20                                                                     *)
(***************************************************************************)
\* The source keys the source references of the model lead to.
SourceKeys == {SplitPop(u) : u \in SourceUrls} \ {<<>>}

\* C20: for every source key, neither derived key equals the source key,
\* and no putObject of a run is issued on the key its source was
\* downloaded from.
C20_DerivedKeysNotSource ==
    /\ \A k \in SourceKeys : H264Key(k) # k /\ ThumbKey(k) # k
    /\ sourceKey # <<>> =>
          /\ H264Key(sourceKey) # sourceKey
          /\ ThumbKey(sourceKey) # sourceKey
          /\ \A i \in DOMAIN puts : puts[i] # sourceKey

C20_Witness ==
    /\ Exited
    /\ getObj = "body"
    /\ sourceKey = <<"a", ".", "m">>
    /\ puts = <<H264Key(sourceKey), ThumbKey(sourceKey)>>
    /\ videoUp = "ok"
    /\ thumbUp = "ok"

====
